---- MODULE Spec2Model ----
(***************************************************************************)
(* A model of download_vod.py: the archive pipeline of main (probe,        *)
(* acquire, thumbnail dedup, chat normalisation, metadata normalisation)   *)
(* over the files of one archive directory, the chat replay parser and its *)
(* SQLite store, and the naming of the archive directory.                  *)
(*                                                                         *)
(* Python values are modelled as follows.  A dict is a function whose      *)
(* DOMAIN is its key set (a record); d.get(k) is Get(d, k), an option:     *)
(* <<>> is None and <<v>> is the value v.  A file is an option of its      *)
(* content.  A str that int() is applied to is [int |-> n] when it is a    *)
(* numeral and [text |-> s] otherwise.                                      *)
(***************************************************************************)
EXTENDS Integers, Sequences, FiniteSets, TLC

VARIABLES
    video,      \* what the source URL holds: probe response, chat dump, metadata, thumbnails
    posix,      \* the platform: TRUE when Path.rename replaces an existing target
    pc,         \* position of the current invocation of main
    clock,      \* the wall clock, in seconds
    fs,         \* the files of the archive directory
    loc,        \* local variables of the running invocation
    outdir,     \* the archive directory path the running invocation computed
    dirs,       \* the archive directories created so far
    start       \* what the running invocation found when it started

vars == <<video, posix, pc, clock, fs, loc, outdir, dirs, start>>

----------------------------------------------------------------------------
(* Bounds of the model *)

MaxClock == 2
MaxContent == 3
MaxRandomId == 1

----------------------------------------------------------------------------
(* Options, dicts and files *)

None == <<>>
Some(v) == <<v>>
Get(d, k) == IF k \in DOMAIN d THEN Some(d[k]) ELSE None

Absent == <<>>
File(c) == <<c>>
Exists(f) == f # Absent
Content(f) == f[1]

Min(a, b) == IF a < b THEN a ELSE b

RECURSIVE SeqToSet(_)
SeqToSet(s) == IF s = <<>> THEN {} ELSE {Head(s)} \cup SeqToSet(Tail(s))

\* every enumeration order of a finite set
Orders(S) == {s \in [1..Cardinality(S) -> S] : \A x \in S : \E i \in DOMAIN s : s[i] = x}

----------------------------------------------------------------------------
(* sanitise, sha256f, local_id, iso_from_ts *)

\* characters matched by _illegal_fs_chars, among the characters of the model
\* ("\t" stands for the control characters \0-\37)
IllegalFsChars == {"<", ">", ":", "\"", "/", "\\", "|", "?", "*", "\t"}
Whitespace == {" ", "\t"}

\* _illegal_fs_chars.sub("", s)
KeptChar(c) == c \notin IllegalFsChars
DropIllegal(s) == SelectSeq(s, KeptChar)

RECURSIVE LStrip(_, _)
LStrip(s, chars) ==
    IF s # <<>> /\ Head(s) \in chars THEN LStrip(Tail(s), chars) ELSE s

RECURSIVE RStrip(_, _)
RStrip(s, chars) ==
    IF s # <<>> /\ s[Len(s)] \in chars THEN RStrip(SubSeq(s, 1, Len(s) - 1), chars) ELSE s

Untitled == <<"u", "n", "t", "i", "t", "l", "e", "d">>

\* (mutant) trailing dots are kept: no s.rstrip(". ")
sanitise_keeping_dots(s, max_len) ==
    LET cut == SubSeq(DropIllegal(s), 1, Min(Len(DropIllegal(s)), max_len))
        stripped == RStrip(LStrip(cut, Whitespace), Whitespace)
    IN IF stripped = <<>> THEN Untitled ELSE stripped

sanitise(s, max_len) ==
    LET cut == SubSeq(DropIllegal(s), 1, Min(Len(DropIllegal(s)), max_len))
        stripped == RStrip(LStrip(cut, Whitespace), Whitespace)
        r == RStrip(stripped, {".", " "})
    IN IF r = <<>> THEN Untitled ELSE r

SanitiseMaxLen == 100

\* the digest of a file's content (SHA-256 is taken to be collision free)
sha256f(content) == <<"sha256", content>>

LOCAL_ID_PREFIX == "yt-2localvt22"
local_id(digits) == <<LOCAL_ID_PREFIX, digits>>

\* an ISO-8601 UTC string is modelled by the instant it denotes
iso_from_ts(ts) == IF ts = None \/ ts[1] = 0 THEN None ELSE Some([iso |-> ts[1]])

----------------------------------------------------------------------------
(* The chat replay parser *)

\* int(x) of a str: defined on numerals only
IsNumeral(x) == "int" \in DOMAIN x
IntOf(x) == x.int

iso_from_usec(us) ==
    IF us = None \/ us[1] = [text |-> ""] THEN None ELSE Some([iso_usec |-> IntOf(us[1])])
iso_from_usec_raises(us) ==
    us # None /\ us[1] # [text |-> ""] /\ ~IsNumeral(us[1])

RENDERER_KEYS == <<
    "liveChatTextMessageRenderer",
    "liveChatPaidMessageRenderer",
    "liveChatPaidStickerRenderer",
    "liveChatStickerRenderer",
    "liveChatViewerEngagementMessageRenderer" >>

\* A JSON object whose key order matters (item, contents) is a sequence of
\* [k, v] pairs in the order of the keys in the text.
RECURSIVE FirstKnownKey(_)
FirstKnownKey(item) ==
    IF item = <<>> THEN None
    ELSE IF Head(item).k \in SeqToSet(RENDERER_KEYS) THEN Some(Head(item))
    ELSE FirstKnownKey(Tail(item))

NoRenderer == [ren |-> None, rkey |-> "", pinned |-> FALSE]

extract_renderer(action) ==
    IF "addChatItemAction" \in DOMAIN action THEN
        LET item == action.addChatItemAction.item
            key == FirstKnownKey(item)
        IN IF key # None
           THEN [ren |-> Some(key[1].v), rkey |-> key[1].k, pinned |-> FALSE]
           ELSE NoRenderer
    ELSE IF "addBannerToLiveChatCommand" \in DOMAIN action THEN
        LET contents ==
                action.addBannerToLiveChatCommand.bannerRenderer.liveChatBannerRenderer.contents
            key == FirstKnownKey(contents)
        IN IF key # None
           THEN [ren |-> Some(key[1].v), rkey |-> key[1].k, pinned |-> TRUE]
           ELSE NoRenderer
    ELSE NoRenderer

\* str.upper() on the icon types of the model
Upper(s) ==
    CASE s = "moderator" -> "MODERATOR"
      [] s = "verified" -> "VERIFIED"
      [] s = "owner" -> "OWNER"
      [] OTHER -> s

BadgeIcon(b) ==
    LET r == b.liveChatAuthorBadgeRenderer
        icon == IF "icon" \in DOMAIN r THEN r.icon ELSE <<>>
    IN Upper(IF "iconType" \in DOMAIN icon THEN icon.iconType ELSE "")

\* (mutant) an entry without the wrapper gives an empty segment
RECURSIVE BadgeSegmentsKeepingAll(_)
BadgeSegmentsKeepingAll(badges) ==
    IF badges = <<>> THEN <<>>
    ELSE <<IF "liveChatAuthorBadgeRenderer" \in DOMAIN Head(badges)
           THEN BadgeIcon(Head(badges)) ELSE "">> \o BadgeSegmentsKeepingAll(Tail(badges))

RECURSIVE BadgeSegments(_)
BadgeSegments(badges) ==
    IF badges = <<>> THEN <<>>
    ELSE IF "liveChatAuthorBadgeRenderer" \in DOMAIN Head(badges)
         THEN <<BadgeIcon(Head(badges))>> \o BadgeSegments(Tail(badges))
         ELSE BadgeSegments(Tail(badges))

RECURSIVE Join(_, _)
Join(sep, parts) ==
    IF parts = <<>> THEN ""
    ELSE IF Len(parts) = 1 THEN parts[1]
    ELSE parts[1] \o sep \o Join(sep, Tail(parts))

badge_list(badges) == Join(";", BadgeSegments(badges))

RunText(r) ==
    IF "text" \in DOMAIN r THEN <<r.text>>
    ELSE IF "emoji" \in DOMAIN r THEN
        LET e == r.emoji
        IN IF "shortcuts" \in DOMAIN e /\ e.shortcuts # <<>> THEN <<e.shortcuts[1]>>
           ELSE IF "emojiId" \in DOMAIN e THEN <<e.emojiId>> ELSE <<"">>
    ELSE <<>>

RECURSIVE RunSegments(_)
RunSegments(runs) ==
    IF runs = <<>> THEN <<>> ELSE RunText(Head(runs)) \o RunSegments(Tail(runs))

render_runs(runs) == Join("", RunSegments(runs))

\* the words a renderer key is written with
KeyWords(rkey) ==
    CASE rkey = "liveChatTextMessageRenderer" -> {"liveChat", "Text", "Message", "Renderer"}
      [] rkey = "liveChatPaidMessageRenderer" -> {"liveChat", "Paid", "Message", "Renderer"}
      [] rkey = "liveChatPaidStickerRenderer" -> {"liveChat", "Paid", "Sticker", "Renderer"}
      [] rkey = "liveChatStickerRenderer" -> {"liveChat", "Sticker", "Renderer"}
      [] rkey = "liveChatViewerEngagementMessageRenderer" ->
            {"liveChat", "ViewerEngagement", "Message", "Renderer"}
      [] OTHER -> {rkey}

\* "Paid" in rkey, "Sticker" in rkey, "ViewerEngagement" in rkey
HasPaid(rkey) == "Paid" \in KeyWords(rkey)
HasSticker(rkey) == "Sticker" \in KeyWords(rkey)
HasViewerEngagement(rkey) == "ViewerEngagement" \in KeyWords(rkey)

\* (mutant) "Sticker" is looked for before "Paid"
MessageTypeStickerFirst(rkey) ==
    IF HasSticker(rkey) THEN "sticker"
    ELSE IF HasPaid(rkey) THEN "paid"
    ELSE IF HasViewerEngagement(rkey) THEN "system"
    ELSE "text"

MessageType(rkey) ==
    IF HasPaid(rkey) THEN "paid"
    ELSE IF HasSticker(rkey) THEN "sticker"
    ELSE IF HasViewerEngagement(rkey) THEN "system"
    ELSE "text"

\* x or y on options of str
OrElse(x, y) == IF x # None /\ x[1] # "" THEN x ELSE y

Color(ren) == OrElse(Get(ren, "bodyBackgroundColor"), Get(ren, "headerBackgroundColor"))

Body(ren) ==
    IF "message" \in DOMAIN ren THEN
        Some(render_runs(IF "runs" \in DOMAIN ren.message THEN ren.message.runs ELSE <<>>))
    ELSE IF "accessibility" \in DOMAIN ren THEN
        Some(ren.accessibility.accessibilityData.label)
    ELSE None
BodyRaises(ren) ==
    /\ "message" \notin DOMAIN ren
    /\ "accessibility" \in DOMAIN ren
    /\ \/ "accessibilityData" \notin DOMAIN ren.accessibility
       \/ "label" \notin DOMAIN ren.accessibility.accessibilityData

\* f"{amt:.2f}; {cur}; {color}": the amount in hundredths, the currency, the color
Donation(ren) ==
    IF "purchaseAmountMicros" \in DOMAIN ren THEN
        LET cur == OrElse(Get(ren, "currency"),
                          IF "purchaseCurrency" \in DOMAIN ren
                          THEN Some(ren.purchaseCurrency) ELSE Some(""))
        IN Some([hundredths |-> (IntOf(ren.purchaseAmountMicros) + 5000) \div 10000,
                 cur |-> cur, color |-> Color(ren)])
    ELSE None
DonationRaises(ren) ==
    "purchaseAmountMicros" \in DOMAIN ren /\ ~IsNumeral(ren.purchaseAmountMicros)

Logo(ren) ==
    LET photo == IF "authorPhoto" \in DOMAIN ren THEN ren.authorPhoto ELSE <<>>
        thumbs == IF "thumbnails" \in DOMAIN photo THEN photo.thumbnails ELSE << <<>> >>
    IN Get(thumbs[1], "url")
LogoRaises(ren) ==
    /\ "authorPhoto" \in DOMAIN ren
    /\ "thumbnails" \in DOMAIN ren.authorPhoto
    /\ ren.authorPhoto.thumbnails = <<>>

Author(ren) ==
    Get(IF "authorName" \in DOMAIN ren THEN ren.authorName ELSE <<>>, "simpleText")

\* the tuple appended to rows for one renderer (lines 176-222)
RowOf(ren, rkey, pinned, offset_ms) ==
    [message_id |-> Get(ren, "id"),
     message_sent_absolute |-> iso_from_usec(Get(ren, "timestampUsec")),
     message_sent_offset |-> offset_ms \div 1000,
     user_name |-> Author(ren),
     user_id |-> Get(ren, "authorExternalChannelId"),
     user_logo |-> Logo(ren),
     message_body |-> Body(ren),
     donation |-> Donation(ren),
     color |-> Color(ren),
     message_type |-> MessageType(rkey),
     is_pinned |-> IF pinned THEN 1 ELSE 0,
     author_badges |-> badge_list(IF "authorBadges" \in DOMAIN ren
                                  THEN ren.authorBadges ELSE <<>>)]

RowRaises(ren) ==
    \/ iso_from_usec_raises(Get(ren, "timestampUsec"))
    \/ LogoRaises(ren)
    \/ BodyRaises(ren)
    \/ DonationRaises(ren)

\* the exception building the row raises, in the order of lines 177-194
RowException(ren) ==
    IF iso_from_usec_raises(Get(ren, "timestampUsec")) THEN "ValueError"
    ELSE IF LogoRaises(ren) THEN "IndexError"
    ELSE IF BodyRaises(ren) THEN "KeyError"
    ELSE "ValueError"

\* The text of a raw chat dump: form "array" is one JSON array holding the
\* items, form "lines" is one item per line.  An item is [json |-> object]
\* when its text is valid JSON and [garbage |-> text] when it is not.
IsValidJson(item) == "json" \in DOMAIN item

RECURSIVE ValidPrefix(_)
ValidPrefix(items) ==
    IF items = <<>> \/ ~IsValidJson(Head(items)) THEN <<>>
    ELSE <<Head(items).json>> \o ValidPrefix(Tail(items))

\* json.loads(text.lstrip()) succeeds: the text is one JSON value
WholeTextParses(text) ==
    IF text.form = "array" THEN \A i \in DOMAIN text.items : IsValidJson(text.items[i])
    ELSE Len(text.items) = 1 /\ IsValidJson(text.items[1])

\* (mutant) a malformed item is skipped instead of ending the parse
RECURSIVE ValidItems(_)
ValidItems(items) ==
    IF items = <<>> THEN <<>>
    ELSE (IF IsValidJson(Head(items)) THEN <<Head(items).json>> ELSE <<>>)
         \o ValidItems(Tail(items))
iter_top_objs_skipping(text) == [objs |-> ValidItems(text.items), raises |-> FALSE]

\* The objects the generator yields, and whether it then raises.  When the
\* whole text does not parse, each non-empty line is parsed on its own: a line
\* of a malformed array is no JSON value, an item line is its item.
iter_top_objs(text) ==
    IF WholeTextParses(text)
    THEN [objs |-> ValidPrefix(text.items), raises |-> FALSE]
    ELSE IF text.form = "array"
    THEN [objs |-> <<>>, raises |-> TRUE]
    ELSE [objs |-> ValidPrefix(text.items),
          raises |-> Len(ValidPrefix(text.items)) < Len(text.items)]

\* the rows of one replayChatItemAction wrapper, and whether building them raises
RECURSIVE ActionRows(_, _)
ActionRows(actions, offset_ms) ==
    IF actions = <<>> THEN [rows |-> <<>>, raises |-> FALSE]
    ELSE LET r == extract_renderer(Head(actions))
         IN IF r.ren = None THEN ActionRows(Tail(actions), offset_ms)
            ELSE IF RowRaises(r.ren[1]) THEN [rows |-> <<>>, raises |-> TRUE]
            ELSE LET rest == ActionRows(Tail(actions), offset_ms)
                 IN [rows |-> <<RowOf(r.ren[1], r.rkey, r.pinned, offset_ms)>> \o rest.rows,
                     raises |-> rest.raises]

Zero == [int |-> 0]

TopRows(top) ==
    IF "replayChatItemAction" \notin DOMAIN top THEN [rows |-> <<>>, raises |-> FALSE]
    ELSE LET w == top.replayChatItemAction
             offset == IF "videoOffsetTimeMsec" \in DOMAIN w THEN w.videoOffsetTimeMsec ELSE Zero
         IN IF ~IsNumeral(offset) \/ "actions" \notin DOMAIN w
            THEN [rows |-> <<>>, raises |-> TRUE]
            ELSE ActionRows(w.actions, IntOf(offset))

RECURSIVE CollectRows(_)
CollectRows(objs) ==
    IF objs = <<>> THEN [rows |-> <<>>, raises |-> FALSE]
    ELSE LET first == TopRows(Head(objs))
         IN IF first.raises THEN [rows |-> <<>>, raises |-> TRUE]
            ELSE LET rest == CollectRows(Tail(objs))
                 IN [rows |-> first.rows \o rest.rows, raises |-> rest.raises]

\* lines 166-222 of chat_json_to_sqlite: the list rows, or an exception
ParseRows(text) ==
    LET it == iter_top_objs(text)
        got == CollectRows(it.objs)
    IN [rows |-> got.rows, raises |-> got.raises \/ it.raises,
        exc |-> IF got.raises THEN "ValueError" ELSE "JSONDecodeError"]

\* CHAT_SCHEMA_SQL and INSERT OR IGNORE: message_id is a TEXT PRIMARY KEY of an
\* ordinary rowid table, so it is unique among the rows where it is not NULL,
\* and any number of rows may hold NULL.
Conflicts(table, row) ==
    /\ row.message_id # None
    /\ \E i \in DOMAIN table : table[i].message_id = row.message_id

InsertOrIgnore(table, row) == IF Conflicts(table, row) THEN table ELSE Append(table, row)

RECURSIVE ExecuteMany(_, _)
ExecuteMany(table, rows) ==
    IF rows = <<>> THEN table
    ELSE ExecuteMany(InsertOrIgnore(table, Head(rows)), Tail(rows))

----------------------------------------------------------------------------
(* Thumbnails: a jpg file's content is a number, its byte size is Size *)

Contents == 1..MaxContent
\* contents 2 and 3 are different images of the same byte size
Size(content) == content \div 2 + 1

ThumbName(i) ==
    IF i = 0 THEN "thumbnail_main.jpg"
    ELSE "thumbnail_000" \o <<"0", "1", "2", "3", "4", "5", "6", "7", "8", "9">>[i + 1] \o ".jpg"

\* files: a directory's files of one kind, a function from file name to content
Remove(files, name) == [n \in DOMAIN files \ {name} |-> files[n]]
Put(files, name, content) == (name :> content) @@ files

\* (mutant) an unstable sort: p goes before the entries of its own size
RECURSIVE InsertBySizeUnstable(_, _, _)
InsertBySizeUnstable(sorted, p, files) ==
    IF sorted = <<>> THEN <<p>>
    ELSE IF Size(files[Head(sorted)]) > Size(files[p])
         THEN <<Head(sorted)>> \o InsertBySizeUnstable(Tail(sorted), p, files)
         ELSE <<p>> \o sorted

\* list.sort(key=st_size, reverse=True) is stable: p goes behind every entry
\* that is at least as large
RECURSIVE InsertBySize(_, _, _)
InsertBySize(sorted, p, files) ==
    IF sorted = <<>> THEN <<p>>
    ELSE IF Size(files[Head(sorted)]) >= Size(files[p])
         THEN <<Head(sorted)>> \o InsertBySize(Tail(sorted), p, files)
         ELSE <<p>> \o sorted

RECURSIVE SortBySizeDesc(_, _)
SortBySizeDesc(uniq, files) ==
    IF uniq = <<>> THEN <<>>
    ELSE InsertBySize(SortBySizeDesc(SubSeq(uniq, 1, Len(uniq) - 1), files),
                      uniq[Len(uniq)], files)

----------------------------------------------------------------------------
(* The metadata record *)

EmptyFile == [bytes |-> 0]

iso_end(meta) ==
    LET s == IF Get(meta, "release_timestamp") # None /\ meta.release_timestamp # 0
             THEN Get(meta, "release_timestamp") ELSE Get(meta, "timestamp")
        d == Get(meta, "duration")
    IN IF s # None /\ s[1] # 0 /\ d # None /\ d[1] # 0
       THEN iso_from_ts(Some(s[1] + d[1])) ELSE None

StartTs(meta) ==
    IF Get(meta, "release_timestamp") # None /\ meta.release_timestamp # 0
    THEN Get(meta, "release_timestamp") ELSE Get(meta, "timestamp")

\* str(dt.timedelta(seconds=n)) is modelled by the number of seconds it shows
TimeDelta(seconds) == [timedelta |-> seconds]

\* lines 258-259: duration_string, or the rendering of (duration or 0)
DurationString(meta) ==
    IF Get(meta, "duration_string") # None /\ meta.duration_string # ""
    THEN Get(meta, "duration_string")
    ELSE Some(TimeDelta(IF "duration" \in DOMAIN meta THEN meta.duration ELSE 0))

\* the dict rec of write_meta_json; meta["id"] must exist
MetaRecord(meta, vod_sha, now) ==
    [stream_id |-> None,
     vod_id |-> <<"v", meta.id>>,
     title |-> Get(meta, "title"),
     created_at |-> iso_from_ts(StartTs(meta)),
     published_at |-> iso_from_ts(Get(meta, "upload_date")),
     thumbnail_url |-> Get(meta, "thumbnail"),
     thumbnail_filename |-> "thumbnail_main.jpg",
     url |-> Get(meta, "webpage_url"),
     downloaded_at |-> now,
     vod_sha256 |-> vod_sha,
     duration |-> Get(meta, "duration"),
     duration_string |-> DurationString(meta),
     start_time |-> iso_from_ts(StartTs(meta)),
     end_time |-> iso_end(meta),
     initial_title |-> Get(meta, "title"),
     language |-> Get(meta, "language"),
     origin |-> "youtube",
     like_count |-> Get(meta, "like_count"),
     comment_count |-> Get(meta, "comment_count"),
     view_count |-> Get(meta, "view_count"),
     availability |-> Get(meta, "availability"),
     resolution |-> Get(meta, "resolution"),
     fps |-> Get(meta, "fps"),
     channel |-> Get(meta, "channel"),
     channel_follower_count |-> Get(meta, "channel_follower_count"),
     channel_is_verified |-> Get(meta, "channel_is_verified"),
     description |-> Get(meta, "description"),
     tags |-> Get(meta, "tags")]

MetaRecordRaises(meta) == "id" \notin DOMAIN meta

----------------------------------------------------------------------------
(* The inputs: what a source URL can hold *)

Title(info) == IF "title" \in DOMAIN info THEN info.title ELSE <<>>

TextRenderer(id, txt) == [id |-> id, message |-> [runs |-> <<[text |-> txt]>>]]
NoIdRenderer(txt) == [message |-> [runs |-> <<[text |-> txt]>>]]
AddItem(ren) ==
    [addChatItemAction |-> [item |-> <<[k |-> "liveChatTextMessageRenderer", v |-> ren]>>]]
Banner(ren) ==
    [addBannerToLiveChatCommand |-> [bannerRenderer |-> [liveChatBannerRenderer |->
        [contents |-> <<[k |-> "liveChatPaidMessageRenderer", v |-> ren]>>]]]]
Wrapper(off, actions) ==
    [json |-> [replayChatItemAction |->
        [videoOffsetTimeMsec |-> [int |-> off], actions |-> actions]]]
Garbage == [garbage |-> "{"]
NonChat == [json |-> [clickTrackingParams |-> "x"]]

\* dumps of the pipeline: two messages; a repeated id and a message without id;
\* a dump whose second line is malformed
PipelineChats ==
    { [form |-> "array", items |-> <<Wrapper(1500, <<AddItem(TextRenderer("m1", "a"))>>),
                                     Wrapper(2500, <<Banner(TextRenderer("m2", "b"))>>)>>],
      [form |-> "lines", items |-> <<Wrapper(0, <<AddItem(TextRenderer("m1", "a")),
                                                  AddItem(TextRenderer("m1", "b"))>>),
                                     NonChat,
                                     Wrapper(999, <<AddItem(NoIdRenderer("c"))>>)>>],
      [form |-> "lines", items |-> <<Wrapper(0, <<AddItem(TextRenderer("m1", "a"))>>),
                                     Garbage>>] }

PipelineInfos ==
    { [id |-> "abc", release_timestamp |-> 5, duration |-> 60, title |-> <<"a", "/", "b">>],
      [id |-> "abc", timestamp |-> 7, title |-> <<"a">>, description |-> "about"] }

ThumbFileNames == {"a.jpg", "b.jpg", "c.jpg"}
ThumbSets == UNION {[S -> Contents] : S \in SUBSET ThumbFileNames}

PipelineVideos ==
    [info : PipelineInfos, chat : PipelineChats, thumbs : ThumbSets, media : {"mp4 bytes"}]

----------------------------------------------------------------------------
(* The state *)

NoPath == <<>>

EmptyDir ==
    [vod |-> Absent,          \* vod.mp4
     liveChat |-> Absent,     \* vod.live_chat.json, as the tool names it
     infoJson |-> Absent,     \* vod.info.json, as the tool names it
     chatRaw |-> Absent,      \* chat_raw.json
     metaRaw |-> Absent,      \* metadata_raw.json
     jpgs |-> <<>>,           \* the *.jpg files of the directory
     thumbDir |-> FALSE,      \* thumbnails/ exists
     thumbFiles |-> <<>>,     \* the files of thumbnails/
     sqlite |-> Absent,       \* chat.yt-vod.sqlite: the committed rows of chat_messages
     meta |-> Absent,         \* metadata.yt-vod.json
     desc |-> Absent]         \* description.yt-vod.txt

LocInit ==
    [returncode |-> 0, info |-> <<>>, thumbs |-> <<>>, seen |-> {}, uniq |-> <<>>, i |-> 0,
     rows |-> <<>>, txn |-> <<>>, rec |-> <<>>]

\* the exceptions that end an invocation
Exceptions == {"RuntimeError", "JSONDecodeError", "FileExistsError", "FileNotFoundError",
               "KeyError", "ValueError", "IndexError"}

\* pc when no invocation is running: none yet, the last one logged Done, was
\* terminated, or ended with an exception
Stopped == {"idle", "done", "killed"} \cup Exceptions

\* what an invocation finds when it starts: how the one before it ended and
\* which of the gate artifacts exist
Found(dir, prev) ==
    [prev |-> prev, vod |-> Exists(dir.vod), sqlite |-> Exists(dir.sqlite),
     meta |-> Exists(dir.meta)]

Init ==
    /\ video \in PipelineVideos
    /\ posix \in BOOLEAN
    /\ pc = "idle"
    /\ clock = 0
    /\ fs = EmptyDir
    /\ loc = LocInit
    /\ outdir = NoPath
    /\ dirs = {}
    /\ start = Found(EmptyDir, "idle")

Now == clock

\* an exception leaves main: the invocation is over
Raise(exc) == pc' = exc /\ loc' = LocInit

----------------------------------------------------------------------------
(* main, lines 289-314: probe and archive directory *)

Start ==
    /\ pc \in Stopped
    /\ pc' = "probe"
    /\ start' = Found(fs, pc)
    /\ loc' = LocInit
    /\ outdir' = NoPath
    /\ UNCHANGED <<video, posix, clock, fs, dirs>>

\* (mutant) the exit status is not looked at
run_ydlp_ignores(returncode) == FALSE

\* run_ydlp raises RuntimeError on a non-zero exit status
run_ydlp_raises(returncode) == returncode # 0

\* subprocess.run of the probe: the tool writes no file
Probe ==
    /\ pc = "probe"
    /\ \E returncode \in {0, 1} : loc' = [loc EXCEPT !.returncode = returncode]
    /\ pc' = "probe_check"
    /\ UNCHANGED <<video, posix, clock, fs, outdir, dirs, start>>

\* lines 86-88 and 297: the exit status is checked, the output parsed
ProbeCheck ==
    /\ pc = "probe_check"
    /\ IF run_ydlp_raises(loc.returncode)
       THEN Raise("RuntimeError")
       ELSE /\ loc' = [loc EXCEPT !.info = video.info]
            /\ pc' = "outdir"
    /\ UNCHANGED <<video, posix, clock, fs, outdir, dirs, start>>

Vid(info, digits) ==
    IF "id" \in DOMAIN info /\ info.id # "" THEN <<info.id>> ELSE local_id(digits)

StartDt(info, now) ==
    LET start_iso == iso_from_ts(StartTs(info))
    IN IF start_iso # None THEN start_iso[1].iso ELSE now

OutdirName(info, digits, now) ==
    <<StartDt(info, now), Vid(info, digits), sanitise(Title(info), SanitiseMaxLen)>>

ComputeOutdir ==
    /\ pc = "outdir"
    /\ \E digits \in 0..MaxRandomId : outdir' = OutdirName(loc.info, digits, Now)
    /\ pc' = "mkdir"
    /\ UNCHANGED <<video, posix, clock, fs, loc, dirs, start>>

Mkdir ==
    /\ pc = "mkdir"
    /\ dirs' = dirs \cup {outdir}
    /\ pc' = "vod_gate"
    /\ UNCHANGED <<video, posix, clock, fs, loc, outdir, start>>

----------------------------------------------------------------------------
(* main, lines 316-349: Acquire *)

\* (mutant) the media file is fetched whether or not it exists
AlwaysAcquire(dir) == TRUE

\* line 317
NeedAcquire(dir) == ~Exists(dir.vod)

VodGate ==
    /\ pc = "vod_gate"
    /\ pc' = IF NeedAcquire(fs) THEN "acquire" ELSE "thumb_mkdir"
    /\ UNCHANGED <<video, posix, clock, fs, loc, outdir, dirs, start>>

\* The download tool, run to its end.  On exit status 0 it has written the
\* media file, both sidecars and the thumbnails.  On a non-zero status it has
\* written whatever it got to: the sidecars and thumbnails or not, the media
\* file or not.
ToolWrites(dir, sidecars, media) ==
    [dir EXCEPT
        !.vod = IF media THEN File(video.media) ELSE @,
        !.liveChat = IF sidecars THEN File(video.chat) ELSE @,
        !.infoJson = IF sidecars THEN File(video.info) ELSE @,
        !.jpgs = IF sidecars THEN video.thumbs @@ @ ELSE @]

Acquire ==
    /\ pc = "acquire"
    /\ \E returncode \in {0, 1}, sidecars \in BOOLEAN, media \in BOOLEAN :
        /\ returncode = 0 => sidecars /\ media
        /\ fs' = ToolWrites(fs, sidecars, media)
        /\ loc' = [loc EXCEPT !.returncode = returncode]
    /\ pc' = "acquire_check"
    /\ UNCHANGED <<video, posix, clock, outdir, dirs, start>>

\* lines 91-93
AcquireCheck ==
    /\ pc = "acquire_check"
    /\ IF run_ydlp_raises(loc.returncode)
       THEN Raise("RuntimeError")
       ELSE pc' = "rename_chat" /\ loc' = loc
    /\ UNCHANGED <<video, posix, clock, fs, outdir, dirs, start>>

\* Path.rename onto an existing file: replaces it on POSIX, raises on Windows
RenameRaises(targetExists) == targetExists /\ ~posix

RenameChat ==
    /\ pc = "rename_chat"
    /\ IF ~Exists(fs.liveChat)
       THEN pc' = "rename_info" /\ UNCHANGED <<fs, loc>>
       ELSE IF RenameRaises(Exists(fs.chatRaw))
       THEN Raise("FileExistsError") /\ UNCHANGED fs
       ELSE /\ fs' = [fs EXCEPT !.chatRaw = fs.liveChat, !.liveChat = Absent]
            /\ pc' = "rename_info"
            /\ loc' = loc
    /\ UNCHANGED <<video, posix, clock, outdir, dirs, start>>

RenameInfo ==
    /\ pc = "rename_info"
    /\ IF ~Exists(fs.infoJson)
       THEN pc' = "thumb_mkdir" /\ UNCHANGED <<fs, loc>>
       ELSE IF RenameRaises(Exists(fs.metaRaw))
       THEN Raise("FileExistsError") /\ UNCHANGED fs
       ELSE /\ fs' = [fs EXCEPT !.metaRaw = fs.infoJson, !.infoJson = Absent]
            /\ pc' = "thumb_mkdir"
            /\ loc' = loc
    /\ UNCHANGED <<video, posix, clock, outdir, dirs, start>>

----------------------------------------------------------------------------
(* main, lines 351-369: Dedup-thumbnails *)

ThumbMkdir ==
    /\ pc = "thumb_mkdir"
    /\ fs' = [fs EXCEPT !.thumbDir = TRUE]
    /\ pc' = "glob"
    /\ UNCHANGED <<video, posix, clock, loc, outdir, dirs, start>>

\* thumbs = list(outdir.glob("*.jpg")), in the order the directory gives them
Glob ==
    /\ pc = "glob"
    /\ \E order \in Orders(DOMAIN fs.jpgs) :
        loc' = [loc EXCEPT !.thumbs = order, !.seen = {}, !.uniq = <<>>, !.i = 1]
    /\ pc' = IF fs.jpgs = <<>> THEN "chat_gate" ELSE "dedup"
    /\ UNCHANGED <<video, posix, clock, fs, outdir, dirs, start>>

\* one iteration of the loop over thumbs, lines 357-363
DedupStep ==
    /\ pc = "dedup"
    /\ loc.i <= Len(loc.thumbs)
    /\ LET p == loc.thumbs[loc.i]
           h == sha256f(fs.jpgs[p])
       IN IF h \in loc.seen
          THEN /\ fs' = [fs EXCEPT !.jpgs = Remove(@, p)]
               /\ loc' = [loc EXCEPT !.i = @ + 1]
          ELSE /\ fs' = fs
               /\ loc' = [loc EXCEPT !.seen = @ \cup {h}, !.uniq = Append(@, p), !.i = @ + 1]
    /\ pc' = "dedup"
    /\ UNCHANGED <<video, posix, clock, outdir, dirs, start>>

\* line 364
SortUniq ==
    /\ pc = "dedup"
    /\ loc.i > Len(loc.thumbs)
    /\ loc' = [loc EXCEPT !.uniq = SortBySizeDesc(@, fs.jpgs), !.i = 0]
    /\ pc' = "rename"
    /\ UNCHANGED <<video, posix, clock, fs, outdir, dirs, start>>

\* (mutant) the survivor is renamed inside the archive directory
RenameInPlace(dir, p, name) ==
    [dir EXCEPT !.jpgs = Put(Remove(@, p), name, dir.jpgs[p])]

\* the directory the survivors are renamed into: thumb_dir
RenameIntoThumbDir(dir, p, name) ==
    [dir EXCEPT !.thumbFiles = Put(@, name, dir.jpgs[p]), !.jpgs = Remove(@, p)]

\* one iteration of the loop over uniq, lines 365-369
RenameStep ==
    /\ pc = "rename"
    /\ IF loc.i >= Len(loc.uniq)
       THEN pc' = "chat_gate" /\ UNCHANGED <<fs, loc>>
       ELSE IF RenameRaises(ThumbName(loc.i) \in DOMAIN fs.thumbFiles)
       THEN Raise("FileExistsError") /\ UNCHANGED fs
       ELSE /\ fs' = RenameIntoThumbDir(fs, loc.uniq[loc.i + 1], ThumbName(loc.i))
            /\ loc' = [loc EXCEPT !.i = @ + 1]
            /\ pc' = "rename"
    /\ UNCHANGED <<video, posix, clock, outdir, dirs, start>>

----------------------------------------------------------------------------
(* main, lines 371-377, and chat_json_to_sqlite: Normalize-chat *)

\* lines 371-373
NeedChat(dir) == Exists(dir.chatRaw) /\ ~Exists(dir.sqlite)

ChatGate ==
    /\ pc = "chat_gate"
    /\ pc' = IF NeedChat(fs) THEN "parse" ELSE "meta_gate"
    /\ UNCHANGED <<video, posix, clock, fs, loc, outdir, dirs, start>>

\* lines 166-222: the rows are built before the store is opened
Parse ==
    /\ pc = "parse"
    /\ LET parsed == ParseRows(Content(fs.chatRaw))
       IN IF parsed.raises
          THEN Raise(parsed.exc)
          ELSE loc' = [loc EXCEPT !.rows = parsed.rows] /\ pc' = "connect"
    /\ UNCHANGED <<video, posix, clock, fs, outdir, dirs, start>>

\* lines 225-226: sqlite3.connect and CREATE TABLE IF NOT EXISTS, which is not
\* run inside a transaction: the store file exists from here on
Connect ==
    /\ pc = "connect"
    /\ fs' = [fs EXCEPT !.sqlite = IF Exists(@) THEN @ ELSE File(<<>>)]
    /\ pc' = "insert"
    /\ UNCHANGED <<video, posix, clock, loc, outdir, dirs, start>>

\* lines 227-230: executemany opens a transaction; nothing is durable yet
Insert ==
    /\ pc = "insert"
    /\ loc' = [loc EXCEPT !.txn = ExecuteMany(Content(fs.sqlite), loc.rows)]
    /\ pc' = "commit"
    /\ UNCHANGED <<video, posix, clock, fs, outdir, dirs, start>>

\* (mutant) the connection is closed without commit: the transaction is lost
CloseWithoutCommit ==
    /\ pc = "commit"
    /\ loc' = [loc EXCEPT !.txn = <<>>, !.rows = <<>>]
    /\ pc' = "chat_unlink"
    /\ UNCHANGED <<video, posix, clock, fs, outdir, dirs, start>>

\* lines 231-232: commit and close
Commit ==
    /\ pc = "commit"
    /\ fs' = [fs EXCEPT !.sqlite = File(loc.txn)]
    /\ loc' = [loc EXCEPT !.txn = <<>>, !.rows = <<>>]
    /\ pc' = "chat_unlink"
    /\ UNCHANGED <<video, posix, clock, outdir, dirs, start>>

ChatUnlink ==
    /\ pc = "chat_unlink"
    /\ fs' = [fs EXCEPT !.chatRaw = Absent]
    /\ pc' = "meta_gate"
    /\ UNCHANGED <<video, posix, clock, loc, outdir, dirs, start>>

----------------------------------------------------------------------------
(* main, lines 379-389, and write_meta_json: Normalize-metadata *)

\* lines 379-381
NeedMeta(dir) == Exists(dir.metaRaw) /\ ~Exists(dir.meta)

MetaGate ==
    /\ pc = "meta_gate"
    /\ pc' = IF NeedMeta(fs) THEN "meta_open" ELSE "done"
    /\ UNCHANGED <<video, posix, clock, fs, loc, outdir, dirs, start>>

\* lines 383-385 and 241-280: the raw file is read, vod.mp4 is hashed, rec is
\* built, and write_text opens (creates, truncates) the metadata file
MetaOpen ==
    /\ pc = "meta_open"
    /\ IF ~Exists(fs.vod) \/ MetaRecordRaises(Content(fs.metaRaw))
       THEN /\ Raise(IF ~Exists(fs.vod) THEN "FileNotFoundError" ELSE "KeyError")
            /\ UNCHANGED fs
       ELSE /\ loc' = [loc EXCEPT !.rec =
                    MetaRecord(Content(fs.metaRaw), sha256f(Content(fs.vod)), Now)]
            /\ fs' = [fs EXCEPT !.meta = File(EmptyFile)]
            /\ pc' = "meta_write"
    /\ UNCHANGED <<video, posix, clock, outdir, dirs, start>>

\* line 280: the text is written and the file closed
MetaWrite ==
    /\ pc = "meta_write"
    /\ fs' = [fs EXCEPT !.meta = File(loc.rec)]
    /\ pc' = "desc"
    /\ UNCHANGED <<video, posix, clock, loc, outdir, dirs, start>>

\* lines 283-286
DescWrite ==
    /\ pc = "desc"
    /\ fs' = IF loc.rec.description # None /\ loc.rec.description[1] # ""
             THEN [fs EXCEPT !.desc = File(loc.rec.description[1])]
             ELSE fs
    /\ loc' = [loc EXCEPT !.rec = <<>>]
    /\ pc' = "meta_unlink"
    /\ UNCHANGED <<video, posix, clock, outdir, dirs, start>>

MetaUnlink ==
    /\ pc = "meta_unlink"
    /\ fs' = [fs EXCEPT !.metaRaw = Absent]
    /\ pc' = "done"
    /\ UNCHANGED <<video, posix, clock, loc, outdir, dirs, start>>

----------------------------------------------------------------------------
(* Termination of the process, and the specification *)

\* the process is terminated: an open transaction is rolled back, files stay
Kill ==
    /\ pc \notin Stopped
    /\ pc' = "killed"
    /\ loc' = LocInit
    /\ UNCHANGED <<video, posix, clock, fs, outdir, dirs, start>>

Next ==
    \/ Start \/ Probe \/ ProbeCheck \/ ComputeOutdir \/ Mkdir
    \/ VodGate \/ Acquire \/ AcquireCheck \/ RenameChat \/ RenameInfo
    \/ ThumbMkdir \/ Glob \/ DedupStep \/ SortUniq \/ RenameStep
    \/ ChatGate \/ Parse \/ Connect \/ Insert \/ Commit \/ ChatUnlink
    \/ MetaGate \/ MetaOpen \/ MetaWrite \/ DescWrite \/ MetaUnlink
    \/ Kill

Spec == Init /\ [][Next]_vars

----------------------------------------------------------------------------
(* The archive directory name: main up to line 313, invoked again and again *)
(* on a source whose probe response does not change                        *)

DirInfos ==
    { [k \in K |-> all[k]] :
        K \in SUBSET {"id", "release_timestamp", "timestamp", "title"},
        all \in [id : {"abc", ""}, release_timestamp : {0, 5}, timestamp : {7},
                 title : {<<"a", "/", "b">>, <<" ", ".">>}] }

DirVideos ==
    [info : DirInfos, chat : {[form |-> "lines", items |-> <<>>]}, thumbs : {<<>>},
     media : {"mp4 bytes"}]

InitDir ==
    /\ video \in DirVideos
    /\ posix = TRUE
    /\ pc = "idle"
    /\ clock = 0
    /\ fs = EmptyDir
    /\ loc = LocInit
    /\ outdir = NoPath
    /\ dirs = {}
    /\ start = Found(EmptyDir, "idle")

\* a second passes
Tick ==
    /\ clock < MaxClock
    /\ clock' = clock + 1
    /\ UNCHANGED <<video, posix, pc, fs, loc, outdir, dirs, start>>

\* the rest of main, from line 316 on, which does not touch outdir
RestOfMain ==
    /\ pc = "vod_gate"
    /\ pc' = "done"
    /\ UNCHANGED <<video, posix, clock, fs, loc, outdir, dirs, start>>

NextDir == Start \/ Probe \/ ProbeCheck \/ ComputeOutdir \/ Mkdir \/ RestOfMain \/ Tick

SpecDir == InitDir /\ [][NextDir]_vars

----------------------------------------------------------------------------
(* chat_json_to_sqlite called again and again on one store, and the caller's *)
(* line 377                                                                  *)

MaxRows == 2

ChatRenderers == {TextRenderer("m1", "a"), TextRenderer("m1", "b"), NoIdRenderer("a")}

ChatItems ==
    {Garbage, NonChat}
    \cup {Wrapper(1500, <<AddItem(r)>>) : r \in ChatRenderers}
    \cup {Wrapper(0, <<Banner(TextRenderer("m2", "b")), AddItem(TextRenderer("m1", "a"))>>)}

ChatDumps ==
    [form : {"array", "lines"},
     items : {<<>>} \cup {<<x>> : x \in ChatItems} \cup {<<x, y>> : x \in ChatItems, y \in ChatItems}]

\* what a call finds: the store, and whether the dump is the one that the call
\* before it was given and has inserted
Called(dir, again) == [store |-> dir.sqlite, again |-> again]

InitChat ==
    /\ video \in [info : {[id |-> "abc"]}, chat : {[form |-> "lines", items |-> <<>>]},
                  thumbs : {<<>>}, media : {"mp4 bytes"}]
    /\ posix = TRUE
    /\ pc = "idle"
    /\ clock = 0
    /\ fs = EmptyDir
    /\ loc = LocInit
    /\ outdir = NoPath
    /\ dirs = {}
    /\ start = Called(EmptyDir, FALSE)

\* chat_json_to_sqlite(raw, sqlite_path, log) is called on a new dump
ChatCall ==
    /\ pc \in Stopped \cup {"meta_gate"}
    /\ IF Exists(fs.sqlite) THEN Len(Content(fs.sqlite)) < MaxRows ELSE TRUE
    /\ \E dump \in ChatDumps : fs' = [fs EXCEPT !.chatRaw = File(dump)]
    /\ start' = Called(fs, FALSE)
    /\ loc' = LocInit
    /\ pc' = "parse"
    /\ UNCHANGED <<video, posix, clock, outdir, dirs>>

\* the call has returned, and chat_json_to_sqlite is called once more on the
\* same raw file and the same store
ChatCallAgain ==
    /\ pc = "chat_unlink"
    /\ ~start.again
    /\ start' = Called(fs, TRUE)
    /\ loc' = LocInit
    /\ pc' = "parse"
    /\ UNCHANGED <<video, posix, clock, fs, outdir, dirs>>

NextChat == ChatCall \/ ChatCallAgain \/ Parse \/ Connect \/ Insert \/ Commit \/ ChatUnlink

SpecChat == InitChat /\ [][NextChat]_vars

----------------------------------------------------------------------------
(* The functions of the module called on their own: video is the call, its  *)
(* function and argument, and loc.ret is what the call returned             *)

MaxKeys == 2

\* the keys an item or contents object may carry: the five known ones and one other
ItemKeys == SeqToSet(RENDERER_KEYS) \cup {"liveChatPlaceholderItemRenderer"}

\* item / contents objects with up to MaxKeys keys, in every order; the
\* renderer under key k is marked with k
Items ==
    UNION {{[i \in 1..n |-> [k |-> ks[i], v |-> [id |-> ks[i]]]] :
                ks \in {q \in [1..n -> ItemKeys] : \A i, j \in 1..n : i # j => q[i] # q[j]}} :
           n \in 0..MaxKeys}

AddItemOf(item) == [addChatItemAction |-> [item |-> item]]
BannerOf(contents) ==
    [addBannerToLiveChatCommand |-> [bannerRenderer |-> [liveChatBannerRenderer |->
        [contents |-> contents]]]]
OtherAction == [removeChatItemAction |-> [targetItemId |-> "m1"]]

ExtractCalls ==
    [fn : {"extract_renderer"},
     arg : {AddItemOf(i) : i \in Items} \cup {BannerOf(i) : i \in Items} \cup {OtherAction}]

\* a top-level object of a dump: a replayChatItemAction wrapper, with or
\* without videoOffsetTimeMsec
WrapperOf(offset, actions) ==
    [replayChatItemAction |->
        (IF offset = None THEN <<>> ELSE "videoOffsetTimeMsec" :> offset[1])
        @@ ("actions" :> actions)]

KeyedItem(k, ren) == <<[k |-> k, v |-> ren]>>

\* the values of videoOffsetTimeMsec: absent, numerals, and strings int() rejects
Offsets ==
    {None, Some([int |-> 0]), Some([int |-> 999]), Some([int |-> 1500]),
     Some([int |-> -1500]), Some([text |-> "abc"]), Some([text |-> ""])}

\* wrappers of two well-formed messages under each offset
OffsetTops ==
    {WrapperOf(o, <<AddItemOf(KeyedItem("liveChatTextMessageRenderer", TextRenderer("m1", "a"))),
                    BannerOf(KeyedItem("liveChatPaidMessageRenderer", TextRenderer("m2", "b")))>>) :
        o \in Offsets}

\* the dicts with key k absent, or present with one of the values
Opt(k, values) == {<<>>} \cup {k :> v : v \in values}

ABadge == [liveChatAuthorBadgeRenderer |-> [icon |-> [iconType |-> "moderator"]]]

\* renderers in which each optional field is absent, empty or present
FieldRenderers ==
    {a @@ b @@ c @@ d @@ e @@ f @@ g @@ h @@ i @@ j :
        a \in Opt("id", {"m1"}),
        b \in Opt("timestampUsec", {[text |-> ""], [int |-> 1000000]}),
        c \in Opt("authorName", {<<>>, [simpleText |-> "bob"]}),
        d \in Opt("authorExternalChannelId", {"UC1"}),
        e \in Opt("authorPhoto", {<<>>, [thumbnails |-> <<>>],
                                  [thumbnails |-> <<[url |-> "u"]>>]}),
        f \in Opt("message", {<<>>, [runs |-> <<>>], [runs |-> <<[text |-> "hi"]>>]}),
        g \in Opt("accessibility", {<<>>, [accessibilityData |-> <<>>],
                                    [accessibilityData |-> [label |-> "L"]]}),
        h \in Opt("authorBadges", {<<>>, <<ABadge>>}),
        i \in Opt("bodyBackgroundColor", {"4280191205"}),
        j \in {<<>>, [purchaseAmountMicros |-> [int |-> 5000000]],
               [purchaseAmountMicros |-> [int |-> 5000000], currency |-> "USD"]}}

\* wrappers of one message whose renderer is one of these
FieldTops ==
    {WrapperOf(Some([int |-> 1500]),
               <<AddItemOf(KeyedItem("liveChatTextMessageRenderer", ren))>>) :
        ren \in FieldRenderers}

\* wrappers of one message under each of the five keys, added or pinned
KeyTops ==
    {WrapperOf(None, <<AddItemOf(KeyedItem(RENDERER_KEYS[n], TextRenderer("m1", "a")))>>) :
        n \in DOMAIN RENDERER_KEYS}
    \cup {WrapperOf(None, <<BannerOf(KeyedItem(RENDERER_KEYS[n], TextRenderer("m1", "a")))>>) :
            n \in DOMAIN RENDERER_KEYS}

RowCalls == [fn : {"chat_rows"}, arg : OffsetTops \cup FieldTops \cup KeyTops]

MaxBadges == 3

\* the entries of an authorBadges list: badges in lower and upper case, a
\* badge without icon type, a badge without icon, and an entry that carries
\* no liveChatAuthorBadgeRenderer
BadgeEntries ==
    {[liveChatAuthorBadgeRenderer |-> [icon |-> [iconType |-> "moderator"]]],
     [liveChatAuthorBadgeRenderer |-> [icon |-> [iconType |-> "VERIFIED"]]],
     [liveChatAuthorBadgeRenderer |-> [icon |-> <<>>]],
     [liveChatAuthorBadgeRenderer |-> <<>>],
     [notABadge |-> "x"]}

BadgeLists == UNION {[1..n -> BadgeEntries] : n \in 0..MaxBadges}

BadgeCalls == [fn : {"badge_list"}, arg : BadgeLists]

MaxEdge == 2

\* the characters of a title: a letter, a space, a dot, an illegal character
\* and a control character
TitleChars == {"a", " ", ".", "/", "\t"}

\* what a title begins and ends with
Edges == UNION {[1..n -> TitleChars] : n \in 0..MaxEdge}

\* n letters
Letters(n) == [i \in 1..n |-> "x"]

\* titles shorter than, as long as and longer than SanitiseMaxLen characters
Titles ==
    {head \o Letters(n) \o tail :
        head \in Edges, tail \in Edges, n \in {0} \cup (SanitiseMaxLen - 3)..SanitiseMaxLen}

SanitiseCalls == [fn : {"sanitise"}, arg : Titles]

\* the optional keys of a raw metadata object that go into the record as they are
PassedKeys ==
    {"thumbnail", "webpage_url", "language", "like_count", "comment_count", "view_count",
     "availability", "resolution", "fps", "channel", "channel_follower_count",
     "channel_is_verified", "tags"}

\* raw metadata objects: each timestamp absent, 0 or positive, the duration
\* absent, 0 or positive, the other optional keys absent or present
RawMetas ==
    {a @@ b @@ c @@ d @@ e @@ f @@ g @@ h @@ i :
        a \in Opt("id", {"abc"}),
        b \in Opt("release_timestamp", {0, 5}),
        c \in Opt("timestamp", {0, 7}),
        d \in Opt("duration", {0, 60}),
        e \in Opt("duration_string", {"1:00"}),
        f \in Opt("title", {"a"}),
        g \in Opt("description", {"", "about"}),
        h \in Opt("upload_date", {20240101}),
        i \in {<<>>, [k \in PassedKeys |-> "v"]}}

MetaCalls == [fn : {"write_meta_json"}, arg : RawMetas]

FnCalls == ExtractCalls \cup RowCalls \cup BadgeCalls \cup SanitiseCalls \cup MetaCalls

InitFn ==
    /\ video \in FnCalls
    /\ posix = TRUE
    /\ pc = "idle"
    /\ clock = 0
    /\ fs = EmptyDir
    /\ loc = LocInit
    /\ outdir = NoPath
    /\ dirs = {}
    /\ start = Found(EmptyDir, "idle")

Return(value) ==
    /\ pc' = "returned"
    /\ loc' = [ret |-> value]
    /\ UNCHANGED <<video, posix, clock, fs, outdir, dirs, start>>

RaiseFn(exc) ==
    /\ pc' = exc
    /\ loc' = LocInit
    /\ UNCHANGED <<video, posix, clock, fs, outdir, dirs, start>>

Call_extract_renderer ==
    /\ pc = "idle" /\ video.fn = "extract_renderer"
    /\ Return(extract_renderer(video.arg))

\* the exception of lines 170-194 for one top-level object
RECURSIVE ActionsException(_)
ActionsException(actions) ==
    LET r == extract_renderer(Head(actions))
    IN IF r.ren # None /\ RowRaises(r.ren[1]) THEN RowException(r.ren[1])
       ELSE ActionsException(Tail(actions))

TopException(top) ==
    LET w == top.replayChatItemAction
    IN IF "videoOffsetTimeMsec" \in DOMAIN w /\ ~IsNumeral(w.videoOffsetTimeMsec)
       THEN "ValueError"
       ELSE IF "actions" \notin DOMAIN w THEN "KeyError"
       ELSE ActionsException(w.actions)

\* lines 168-222: the rows appended for one top-level object
Call_chat_rows ==
    /\ pc = "idle" /\ video.fn = "chat_rows"
    /\ IF TopRows(video.arg).raises
       THEN RaiseFn(TopException(video.arg))
       ELSE Return(TopRows(video.arg).rows)

Call_badge_list ==
    /\ pc = "idle" /\ video.fn = "badge_list"
    /\ Return(badge_list(video.arg))

\* sanitise(title), max_len at its default
Call_sanitise ==
    /\ pc = "idle" /\ video.fn = "sanitise"
    /\ Return(sanitise(video.arg, SanitiseMaxLen))

\* write_meta_json(meta, out, vod_sha, log): the record written to out
Call_write_meta_json ==
    /\ pc = "idle" /\ video.fn = "write_meta_json"
    /\ IF MetaRecordRaises(video.arg)
       THEN RaiseFn("KeyError")
       ELSE Return(MetaRecord(video.arg, sha256f("mp4 bytes"), Now))

NextFn ==
    \/ Call_extract_renderer
    \/ Call_chat_rows
    \/ Call_badge_list
    \/ Call_sanitise
    \/ Call_write_meta_json

SpecFn == InitFn /\ [][NextFn]_vars

----------------------------------------------------------------------------
(* Properties *)

Running == pc \notin Stopped

\* every row of a dump is held by a table: the row itself, or, for a row whose
\* message_id an earlier row of the dump carries, a row with that message_id
Holds(table, rows) ==
    \A i \in DOMAIN rows :
        \E j \in DOMAIN table :
            \/ table[j] = rows[i]
            \/ rows[i].message_id # None /\ table[j].message_id = rows[i].message_id

\* the state an uninterrupted run leaves behind
Completed ==
    /\ Exists(fs.vod)
    /\ Exists(fs.sqlite) /\ Holds(Content(fs.sqlite), ParseRows(video.chat).rows)
    /\ Exists(fs.meta) /\ Content(fs.meta) # EmptyFile
    /\ ~Exists(fs.chatRaw)
    /\ ~Exists(fs.metaRaw)

\* C1: whenever an invocation of main runs to its end (Done), however the
\* invocations before it ended, the archive directory is in the completed
\* state: vod.mp4 present, the store holding every row of the chat dump,
\* the metadata file present, and no raw dump left.
C1_ResumeCompletes == pc = "done" => Completed

\* C2: chat_json_to_sqlite run a second time on the same dump and the same
\* store leaves the store with the rows the first run left.
C2_ParserIdempotent ==
    (pc = "chat_unlink" /\ start.again) => fs.sqlite = start.store

\* C3: no two rows of chat_messages have the same message_id.
C3_MessageIdUnique ==
    Exists(fs.sqlite) =>
        \A i, j \in DOMAIN Content(fs.sqlite) :
            i # j => Content(fs.sqlite)[i].message_id # Content(fs.sqlite)[j].message_id

HasMalformedItem(text) == \E i \in DOMAIN text.items : "garbage" \in DOMAIN text.items[i]

\* C4: when some top-level item of the raw dump is invalid JSON, in the array
\* form or on any line, the call fails with the store exactly as it found it
\* (not created when it did not exist), and the raw dump stays in place.
C4_MalformedDumpRejected ==
    (Exists(fs.chatRaw) /\ HasMalformedItem(Content(fs.chatRaw)) /\ pc # "idle") =>
        /\ pc \in {"parse", "JSONDecodeError"}
        /\ fs.sqlite = start.store

C4_Witness ==
    /\ pc = "JSONDecodeError"
    /\ Exists(fs.sqlite) /\ Len(Content(fs.sqlite)) >= 1
    /\ Content(fs.chatRaw).form = "lines"
    /\ Len(Content(fs.chatRaw).items) = 2
    /\ "json" \in DOMAIN Content(fs.chatRaw).items[1]
    /\ "replayChatItemAction" \in DOMAIN Content(fs.chatRaw).items[1].json
    /\ "garbage" \in DOMAIN Content(fs.chatRaw).items[2]

\* C5: an invocation leaves each of vod.mp4, the chat store and the metadata
\* file that it found at its start as it is, and does not enter the stage
\* that produces it; an invocation that follows one that ran to Done changes
\* no file of the archive directory.
C5_CompletedNotRedone ==
    [][ /\ start.vod =>
            fs'.vod = fs.vod /\ pc' \notin {"acquire", "acquire_check"}
        /\ start.sqlite =>
            fs'.sqlite = fs.sqlite /\ pc' \notin {"parse", "connect", "insert", "commit"}
        /\ start.meta =>
            fs'.meta = fs.meta /\ pc' \notin {"meta_open", "meta_write"}
        /\ (start.prev = "done" /\ Running) => fs' = fs ]_vars

C5_Witness ==
    /\ pc = "done"
    /\ start.prev = "done"
    /\ start.vod /\ start.sqlite /\ start.meta
    /\ fs.thumbFiles # <<>>
    /\ Exists(fs.desc)

\* C6: invocations of main on a source whose probe response does not change
\* all compute the same archive directory: no second directory is created.
C6_OneDirectory == Cardinality(dirs) <= 1

\* C7: a non-zero exit status of the probe or of the acquisition ends the
\* invocation with RuntimeError at once, with no file touched and no
\* directory created by main, and nothing follows it but a new invocation;
\* the probe itself touches no file.
C7_ToolFailureAborts ==
    [][ /\ (pc \in {"probe_check", "acquire_check"} /\ loc.returncode # 0) =>
            /\ pc' \in {"RuntimeError", "killed"}
            /\ fs' = fs /\ dirs' = dirs
        /\ pc \in {"probe", "probe_check"} => fs' = fs /\ dirs' = dirs
        /\ pc = "RuntimeError" => pc' = "probe" /\ fs' = fs /\ dirs' = dirs ]_vars

C7_Witness ==
    /\ pc = "RuntimeError"
    /\ Exists(fs.liveChat) /\ Exists(fs.infoJson) /\ fs.jpgs # <<>>
    /\ ~Exists(fs.chatRaw) /\ ~Exists(fs.metaRaw) /\ ~fs.thumbDir

MainThumb == "thumbnail_main.jpg"

\* C8: when the Dedup-thumbnails stage has finished and there are thumbnails,
\* no two of them have the same content, one is named thumbnail_main.jpg,
\* and no thumbnail is larger than it.
C8_ThumbnailSetInvariant ==
    (pc = "chat_gate" /\ fs.thumbFiles # <<>>) =>
        /\ \A m, n \in DOMAIN fs.thumbFiles : m # n => fs.thumbFiles[m] # fs.thumbFiles[n]
        /\ MainThumb \in DOMAIN fs.thumbFiles
        /\ \A n \in DOMAIN fs.thumbFiles : Size(fs.thumbFiles[MainThumb]) >= Size(fs.thumbFiles[n])

\* the content of the j-th candidate of the enumeration
Cand(j) == video.thumbs[loc.thumbs[j]]
FirstOfDigest(j) == \A k \in 1..(j - 1) : Cand(k) # Cand(j)
Survivors == {j \in DOMAIN loc.thumbs : FirstOfDigest(j)}
Pos(name) == CHOOSE j \in DOMAIN loc.thumbs : loc.thumbs[j] = name

\* u holds the first file of each digest, by descending size, files of one
\* size in enumeration order
Ranked(u) ==
    /\ SeqToSet(u) = {loc.thumbs[j] : j \in Survivors}
    /\ Len(u) = Cardinality({Cand(j) : j \in DOMAIN loc.thumbs})
    /\ \A a, b \in DOMAIN u :
        a < b => \/ Size(video.thumbs[u[a]]) > Size(video.thumbs[u[b]])
                 \/ /\ Size(video.thumbs[u[a]]) = Size(video.thumbs[u[b]])
                    /\ Pos(u[a]) < Pos(u[b])

\* C9: in the loop over the candidates, of the files gone through exactly
\* the first of each digest is left and every later one is deleted; in the
\* loop over the survivors, they are ranked by descending size, equal sizes in
\* enumeration order, as many as there are digests, and the k-th of them
\* that has been gone through is thumbnail_main.jpg (k = 1) or
\* thumbnail_000(k-1).jpg in the thumbnails directory; when the first
\* invocation has gone through all of them, the thumbnails directory holds as
\* many files as there are digests.
C9_DedupAndRank ==
    /\ pc = "dedup" =>
        \A j \in 1..(loc.i - 1) : (loc.thumbs[j] \in DOMAIN fs.jpgs) <=> FirstOfDigest(j)
    /\ pc = "rename" =>
        /\ Ranked(loc.uniq)
        /\ \A j \in DOMAIN loc.thumbs :
            ~FirstOfDigest(j) => loc.thumbs[j] \notin DOMAIN fs.jpgs
        /\ \A k \in DOMAIN loc.uniq :
            IF k <= loc.i
            THEN /\ loc.uniq[k] \notin DOMAIN fs.jpgs
                 /\ ThumbName(k - 1) \in DOMAIN fs.thumbFiles
                 /\ fs.thumbFiles[ThumbName(k - 1)] = video.thumbs[loc.uniq[k]]
            ELSE loc.uniq[k] \in DOMAIN fs.jpgs
        /\ (start.prev = "idle" /\ loc.i = Len(loc.uniq)) =>
            Cardinality(DOMAIN fs.thumbFiles) = Cardinality({Cand(j) : j \in DOMAIN loc.thumbs})

\* A and C identical, B distinct and larger: B is main, A is ordinal 1, C is gone
C9_Witness ==
    /\ pc = "rename"
    /\ loc.thumbs = <<"a.jpg", "b.jpg", "c.jpg">>
    /\ video.thumbs["a.jpg"] = video.thumbs["c.jpg"]
    /\ Size(video.thumbs["b.jpg"]) > Size(video.thumbs["a.jpg"])
    /\ loc.i = 2
    /\ fs.jpgs = <<>>
    /\ fs.thumbFiles = ("thumbnail_main.jpg" :> video.thumbs["b.jpg"])
                       @@ ("thumbnail_0001.jpg" :> video.thumbs["a.jpg"])

AfterDedup ==
    {"chat_gate", "parse", "connect", "insert", "commit", "chat_unlink",
     "meta_gate", "meta_open", "meta_write", "desc", "meta_unlink", "done"}

\* C10: once the stage has finished, no candidate file is left in the archive
\* directory, and the stage run on a directory without candidate files
\* changes no file; creating the thumbnails directory touches no thumbnail.
C10_RerunIsNoOp ==
    [][ /\ pc' \in AfterDedup => fs'.jpgs = <<>>
        /\ (pc = "glob" /\ fs.jpgs = <<>>) => fs' = fs /\ pc' \in {"chat_gate", "killed"}
        /\ pc = "thumb_mkdir" =>
            fs'.jpgs = fs.jpgs /\ fs'.thumbFiles = fs.thumbFiles ]_vars

C10_Witness ==
    /\ pc = "chat_gate"
    /\ start.prev = "done"
    /\ loc.thumbs = <<>>
    /\ Cardinality(DOMAIN fs.thumbFiles) = 2

\* the position of key k in the fixed priority list
Priority(k) == CHOOSE i \in DOMAIN RENDERER_KEYS : RENDERER_KEYS[i] = k

\* the object of an add-item action (item) or of a banner action (contents)
ObjectOf(action) ==
    IF "addChatItemAction" \in DOMAIN action THEN action.addChatItemAction.item
    ELSE action.addBannerToLiveChatCommand.bannerRenderer.liveChatBannerRenderer.contents

IsItemAction(action) ==
    "addChatItemAction" \in DOMAIN action \/ "addBannerToLiveChatCommand" \in DOMAIN action

KnownAt(obj) == {i \in DOMAIN obj : obj[i].k \in SeqToSet(RENDERER_KEYS)}

\* C11: extract_renderer returns one triple; for an add-item or banner action
\* whose object carries known renderer keys, the key is the one of them that
\* is earliest in RENDERER_KEYS, whatever the order of the keys in the object,
\* the renderer is the value under that key, and pinned is true exactly for a
\* banner action; an action with none of the five keys gives (None, "", False).
C11_RendererPriority ==
    (pc = "returned" /\ video.fn = "extract_renderer") =>
        LET action == video.arg
        IN IF IsItemAction(action) /\ KnownAt(ObjectOf(action)) # {}
           THEN LET obj == ObjectOf(action)
                    best == CHOOSE i \in KnownAt(obj) :
                                \A j \in KnownAt(obj) : Priority(obj[i].k) <= Priority(obj[j].k)
                IN /\ loc.ret.rkey = obj[best].k
                   /\ loc.ret.ren = Some(obj[best].v)
                   /\ loc.ret.pinned = ("addChatItemAction" \notin DOMAIN action)
           ELSE loc.ret = [ren |-> None, rkey |-> "", pinned |-> FALSE]

\* the wrapper of a chat_rows call and its offset, when it is an integer
CalledWrapper == video.arg.replayChatItemAction
OffsetIsInteger ==
    /\ "videoOffsetTimeMsec" \in DOMAIN CalledWrapper
    /\ "int" \in DOMAIN CalledWrapper.videoOffsetTimeMsec

\* C12: building the rows of a wrapper whose messages are well formed does
\* not fail whatever videoOffsetTimeMsec is; every row of the wrapper has
\* sent_offset 0 when the offset is absent or no integer, and
\* floor(offset_ms / 1000) otherwise.
C12_OffsetNeverFails ==
    (pc # "idle" /\ video.fn = "chat_rows" /\ video.arg \in OffsetTops) =>
        /\ pc = "returned"
        /\ Len(loc.ret) = Len(CalledWrapper.actions)
        /\ \A i \in DOMAIN loc.ret :
            loc.ret[i].message_sent_offset =
                IF OffsetIsInteger
                THEN CHOOSE q \in -2..2 :
                        /\ 1000 * q <= CalledWrapper.videoOffsetTimeMsec.int
                        /\ CalledWrapper.videoOffsetTimeMsec.int < 1000 * (q + 1)
                ELSE 0

\* d[k] is missing or is the empty value
Lacks(d, k, empty) == k \notin DOMAIN d \/ d[k] = empty

\* the renderer of a chat_rows call on a wrapper of one message
CalledRenderer == CalledWrapper.actions[1].addChatItemAction.item[1].v

\* C13: for a recognized renderer in which optional fields are absent or
\* empty, building the row raises nothing and gives one row, with NULL (or
\* the empty string, for the body of a message without runs, the badges and
\* the currency) in the columns of the fields that are absent or empty.
C13_MissingFieldsNeverFail ==
    (pc # "idle" /\ video.fn = "chat_rows" /\ video.arg \in FieldTops) =>
        /\ pc = "returned"
        /\ Len(loc.ret) = 1
        /\ LET ren == CalledRenderer
               row == loc.ret[1]
           IN /\ "id" \notin DOMAIN ren => row.message_id = None
              /\ Lacks(ren, "timestampUsec", [text |-> ""]) => row.message_sent_absolute = None
              /\ (Lacks(ren, "authorName", <<>>)) => row.user_name = None
              /\ "authorExternalChannelId" \notin DOMAIN ren => row.user_id = None
              /\ (Lacks(ren, "authorPhoto", <<>>) \/ ren.authorPhoto.thumbnails = <<>>) =>
                    row.user_logo = None
              /\ ("message" \in DOMAIN ren /\ Lacks(ren.message, "runs", <<>>)) =>
                    row.message_body = Some("")
              /\ ("message" \notin DOMAIN ren
                    /\ (Lacks(ren, "accessibility", <<>>)
                        \/ Lacks(ren.accessibility.accessibilityData, "label", ""))) =>
                    row.message_body = None
              /\ Lacks(ren, "authorBadges", <<>>) => row.author_badges = ""
              /\ "bodyBackgroundColor" \notin DOMAIN ren => row.color = None
              /\ "purchaseAmountMicros" \notin DOMAIN ren => row.donation = None
              /\ ("purchaseAmountMicros" \in DOMAIN ren /\ "currency" \notin DOMAIN ren) =>
                    row.donation[1].cur = Some("")

\* the documented classification of the five kind keys
DocumentedType(rkey) ==
    CASE rkey = "liveChatTextMessageRenderer" -> "text"
      [] rkey = "liveChatPaidMessageRenderer" -> "paid"
      [] rkey = "liveChatPaidStickerRenderer" -> "paid"
      [] rkey = "liveChatStickerRenderer" -> "sticker"
      [] rkey = "liveChatViewerEngagementMessageRenderer" -> "system"

\* C14: the message_type of every row built is the documented type of the
\* kind key of its renderer, whatever the renderer holds and whether it was
\* added or pinned, and is one of text, paid, sticker, system.
C14_MessageTypeTable ==
    (pc = "returned" /\ video.fn = "chat_rows") =>
        /\ Len(loc.ret) = Len(CalledWrapper.actions)
        /\ \A i \in DOMAIN loc.ret :
            /\ loc.ret[i].message_type = DocumentedType(ObjectOf(CalledWrapper.actions[i])[1].k)
            /\ loc.ret[i].message_type \in {"text", "paid", "sticker", "system"}

C14_Witness ==
    /\ pc = "returned" /\ video.fn = "chat_rows"
    /\ ObjectOf(CalledWrapper.actions[1])[1].k = "liveChatPaidStickerRenderer"
    /\ "addBannerToLiveChatCommand" \in DOMAIN CalledWrapper.actions[1]
    /\ loc.ret[1].message_type = "paid"

\* the positions of the entries of a badge list that carry the wrapper
Wrapped(badges) == {i \in DOMAIN badges : "liveChatAuthorBadgeRenderer" \in DOMAIN badges[i]}

\* the position of the n-th of them
NthWrapped(badges, n) ==
    CHOOSE i \in Wrapped(badges) : Cardinality({k \in Wrapped(badges) : k <= i}) = n

\* the icon type of an entry in upper case, "" when it has none
IconOf(b) ==
    LET r == b.liveChatAuthorBadgeRenderer
    IN IF "icon" \in DOMAIN r /\ "iconType" \in DOMAIN r.icon
       THEN (CASE r.icon.iconType = "moderator" -> "MODERATOR"
               [] r.icon.iconType = "VERIFIED" -> "VERIFIED")
       ELSE ""

\* a;b;c of a sequence of strings
RECURSIVE Semicolons(_)
Semicolons(parts) ==
    IF Len(parts) = 0 THEN ""
    ELSE IF Len(parts) = 1 THEN parts[1]
    ELSE Semicolons(SubSeq(parts, 1, Len(parts) - 1)) \o ";" \o parts[Len(parts)]

\* C17: badge_list returns the ';'-join of one segment per entry carrying
\* liveChatAuthorBadgeRenderer, the n-th segment being the upper-cased icon
\* type of the n-th such entry ("" when it has none), in input order, with
\* repeated badges kept; entries without the wrapper give no segment.
C17_BadgeOrderAndCardinality ==
    (pc = "returned" /\ video.fn = "badge_list") =>
        loc.ret = Semicolons([n \in 1..Cardinality(Wrapped(video.arg)) |->
                                IconOf(video.arg[NthWrapped(video.arg, n)])])

\* [VERIFIED, not-a-badge, moderator] gives "VERIFIED;MODERATOR"
C17_Witness ==
    /\ pc = "returned" /\ video.fn = "badge_list"
    /\ video.arg = <<[liveChatAuthorBadgeRenderer |-> [icon |-> [iconType |-> "VERIFIED"]]],
                     [notABadge |-> "x"],
                     [liveChatAuthorBadgeRenderer |-> [icon |-> [iconType |-> "moderator"]]]>>
    /\ loc.ret = "VERIFIED;MODERATOR"

\* < > : " / \ | ? * and the control characters
PathIllegal(c) == c \in {"<", ">", ":", "\"", "/", "\\", "|", "?", "*", "\t"}

IsLegal(c) == ~PathIllegal(c)

\* the first 100 characters of a title that are not path-illegal
LegalPart(title) ==
    LET legal == SelectSeq(title, IsLegal)
    IN [i \in 1..(IF Len(legal) < 100 THEN Len(legal) ELSE 100) |-> legal[i]]

\* C18: sanitise returns a non-empty string of at most 100 characters, none
\* of them path-illegal, that does not end in a dot or a space; it is the
\* placeholder "untitled" exactly when the legal part of the title holds
\* nothing but spaces and dots.
C18_SanitisedName ==
    (pc = "returned" /\ video.fn = "sanitise") =>
        /\ loc.ret # <<>>
        /\ Len(loc.ret) <= 100
        /\ \A i \in DOMAIN loc.ret : ~PathIllegal(loc.ret[i])
        /\ loc.ret[Len(loc.ret)] \notin {".", " "}
        /\ (loc.ret = <<"u", "n", "t", "i", "t", "l", "e", "d">>)
            <=> (\A i \in DOMAIN LegalPart(video.arg) : LegalPart(video.arg)[i] \in {" ", "."})

\* a title with an illegal character, longer than the bound, ending in a dot
C18_Witness ==
    /\ pc = "returned" /\ video.fn = "sanitise"
    /\ Len(video.arg) > 100
    /\ \E i \in DOMAIN video.arg : PathIllegal(video.arg[i])
    /\ video.arg[Len(video.arg)] = "."
    /\ Len(loc.ret) = 100

\* the keys of the canonical record
CanonicalKeys ==
    {"stream_id", "vod_id", "title", "created_at", "published_at", "thumbnail_url",
     "thumbnail_filename", "url", "downloaded_at", "vod_sha256", "duration",
     "duration_string", "start_time", "end_time", "initial_title", "language", "origin",
     "like_count", "comment_count", "view_count", "availability", "resolution", "fps",
     "channel", "channel_follower_count", "channel_is_verified", "description", "tags"}

\* the canonical fields an optional raw key feeds
FieldsOf(raw) ==
    CASE raw = "title" -> {"title", "initial_title"}
      [] raw = "upload_date" -> {"published_at"}
      [] raw = "thumbnail" -> {"thumbnail_url"}
      [] raw = "webpage_url" -> {"url"}
      [] raw = "duration" -> {"duration", "end_time"}
      [] OTHER -> {raw}

\* C15: the record written has the 28 canonical keys whatever the raw object
\* holds, and the canonical field of every optional raw key that is missing
\* is null; created_at, start_time and end_time are null when neither
\* release_timestamp nor timestamp is there.
C15_FixedKeysExplicitNulls ==
    (pc = "returned" /\ video.fn = "write_meta_json") =>
        /\ DOMAIN loc.ret = CanonicalKeys
        /\ \A raw \in PassedKeys \cup {"title", "upload_date", "duration", "duration_string",
                                       "description"} :
            raw \notin DOMAIN video.arg => \A k \in FieldsOf(raw) : loc.ret[k] = None
        /\ ("release_timestamp" \notin DOMAIN video.arg /\ "timestamp" \notin DOMAIN video.arg) =>
            /\ loc.ret.created_at = None
            /\ loc.ret.start_time = None
            /\ loc.ret.end_time = None

\* the start timestamp of a raw metadata object: release_timestamp, else timestamp
StartOf(meta) ==
    IF "release_timestamp" \in DOMAIN meta THEN <<meta.release_timestamp>>
    ELSE IF "timestamp" \in DOMAIN meta THEN <<meta.timestamp>>
    ELSE <<>>

\* C16: end_time of the record written is null when the start timestamp or
\* the duration is absent, and is the instant start + duration when both are
\* there, whatever their values (0 included).
C16_EndTime ==
    (pc = "returned" /\ video.fn = "write_meta_json") =>
        loc.ret.end_time =
            IF StartOf(video.arg) = <<>> \/ "duration" \notin DOMAIN video.arg
            THEN None
            ELSE Some([iso |-> StartOf(video.arg)[1] + video.arg.duration])

\* a store holds every row of the chat dump of the source
StoreComplete(store) == Holds(Content(store), ParseRows(video.chat).rows)

\* the metadata file of a directory holds the canonical record, and the
\* description file is there when the record has a description
MetaComplete(dir) ==
    /\ Content(dir.meta) # EmptyFile
    /\ DOMAIN Content(dir.meta) = CanonicalKeys
    /\ (Content(dir.meta).description # None /\ Content(dir.meta).description # Some("")) =>
            Exists(dir.desc)

\* C19: in the archive directory an invocation leaves behind, however it
\* ended, (a) a store that exists holds every row of the chat dump, (b) a
\* metadata file that exists holds the whole record, with the description
\* file written when there is a description, and (c) when vod.mp4 exists no
\* sidecar of the tool waits to be renamed.
C19_GateArtifactsComplete ==
    pc \in Stopped =>
        /\ Exists(fs.sqlite) => StoreComplete(fs.sqlite)
        /\ Exists(fs.meta) => MetaComplete(fs)
        /\ Exists(fs.vod) => ~Exists(fs.liveChat) /\ ~Exists(fs.infoJson)

\* the chat data is in a directory: as a dump or in the committed store
ChatDataKept(dir) ==
    \/ Exists(dir.liveChat)
    \/ Exists(dir.chatRaw)
    \/ Exists(dir.sqlite) /\ StoreComplete(dir.sqlite)

\* the metadata is in a directory: as a dump or as the canonical file
MetaDataKept(dir) ==
    \/ Exists(dir.infoJson)
    \/ Exists(dir.metaRaw)
    \/ Exists(dir.meta) /\ MetaComplete(dir)

\* the files that carry the chat data, and those that carry the metadata
ChatFiles(dir) == <<dir.liveChat, dir.chatRaw, dir.sqlite>>
MetaFiles(dir) == <<dir.infoJson, dir.metaRaw, dir.meta, dir.desc>>

ChatStage == {"parse", "connect", "insert", "commit", "chat_unlink"}
MetaStage == {"meta_open", "meta_write", "desc", "meta_unlink"}

\* C20: chat_raw.json is deleted only by line 377, when the rows of the dump
\* are committed in the store and no transaction is open; metadata_raw.json
\* is deleted only by line 388, when the metadata file holds the record; a
\* stage that ends with an exception or is terminated leaves its raw dump;
\* so once the chat data (the metadata) is in the directory, no step that
\* changes a file carrying it takes it away: it stays there, as a dump or as
\* the store (the canonical file).
C20_RawDeletedAfterOutput ==
    [][ /\ (Exists(fs.chatRaw) /\ ~Exists(fs'.chatRaw)) =>
            /\ pc = "chat_unlink"
            /\ Exists(fs.sqlite)
            /\ Holds(Content(fs.sqlite), ParseRows(Content(fs.chatRaw)).rows)
            /\ loc.txn = <<>>
        /\ (Exists(fs.metaRaw) /\ ~Exists(fs'.metaRaw)) =>
            /\ pc = "meta_unlink"
            /\ Exists(fs.meta)
            /\ MetaComplete(fs)
        /\ (pc \in ChatStage /\ pc' \in Stopped) => fs'.chatRaw = fs.chatRaw
        /\ (pc \in MetaStage /\ pc' \in Stopped \ {"done"}) => fs'.metaRaw = fs.metaRaw
        /\ (ChatFiles(fs') # ChatFiles(fs) /\ ChatDataKept(fs)) => ChatDataKept(fs')
        /\ (MetaFiles(fs') # MetaFiles(fs) /\ MetaDataKept(fs)) => MetaDataKept(fs') ]_vars

\* a run ended with both raw dumps consumed
C20_Witness ==
    /\ pc = "done"
    /\ ~Exists(fs.chatRaw) /\ ~Exists(fs.metaRaw)
    /\ Exists(fs.sqlite) /\ Len(Content(fs.sqlite)) = 2
    /\ Exists(fs.meta) /\ Exists(fs.desc)

====
